---------------------------- MODULE Spec2Model ----------------------------
(***************************************************************************)
(* A model of two components of the s2 package:                            *)
(*                                                                         *)
(*   PolylineSimplifier (polyline_simplifier.go, src/unnamed/part_000)     *)
(*   indexCellData      (src/s2/index_cell_data.go)                        *)
(*                                                                         *)
(* Angles are kept on a grid of QuarterTurn points per quarter turn, so    *)
(* that pi is 2 * QuarterTurn grid units.  Squared chord lengths are kept  *)
(* on a grid on which the right chord angle (2.0) is RightChordAngle       *)
(* units; the points and radii handed to the simplifier lie on the even    *)
(* grid values, the odd ones being reachable only through the absolute     *)
(* error correction of semiwidth.                                          *)
(*                                                                         *)
(* A point is seen from the fixed source vertex of the simplifier: "dir"   *)
(* is the value math.Atan2 returns for it in the tangent frame at the      *)
(* source (any value of [-pi, pi], both ends included) and "a2" is its     *)
(* squared chord distance from the source.                                 *)
(***************************************************************************)
EXTENDS Integers, Sequences, FiniteSets, TLC

VARIABLES
    \* PolylineSimplifier
    src,             \* output edge source vertex
    xDir, yDir,      \* frame for mapping vectors to angles
    window,          \* allowable range of angles for the output edge
    rangesToAvoid,   \* discs to avoid, not yet processed
    \* history of the simplifier's calls
    op,              \* the operation called last
    ret,             \* the value it returned
    permitted,       \* the bearings that meet every constraint registered so far
    applied,         \* the deferred ranges the last call handed to avoidRange, in order
    \* indexCellData
    index, cell, cellID,
    s2CellSet, s2Cell,
    cellCenterSet, cellCenter,
    dimWanted,
    edges, shapeRegions, dimRegions,
    \* history of the decoder's calls
    configured,      \* whether dimWanted was set by the code that built the decoder
    dop,             \* the decoder operation called last
    dret,            \* the value Cell() or Center() returned last
    loadArg,         \* the arguments of the last LoadCell call
    cellComputes,    \* CellFromCellID calls since the loaded (index, id) changed
    centerComputes   \* CellID.Point calls since the loaded (index, id) changed

simplifierVars == <<src, xDir, yDir, window, rangesToAvoid, op, ret, permitted, applied>>
decoderVars == <<index, cell, cellID, s2CellSet, s2Cell, cellCenterSet, cellCenter,
                 dimWanted, edges, shapeRegions, dimRegions,
                 configured, dop, dret, loadArg, cellComputes, centerComputes>>
vars == <<simplifierVars, decoderVars>>

---------------------------------------------------------------------------
(* Bounds of the model *)

QuarterTurn == 5
MaxQueue == 2
MaxCoord == 2

---------------------------------------------------------------------------
(* Angles and s1.Interval *)

Pi == 2 * QuarterTurn
TwoPi == 4 * QuarterTurn
Angles == (-Pi)..Pi

EmptyInterval == [Lo |-> Pi, Hi |-> -Pi]
FullInterval == [Lo |-> -Pi, Hi |-> Pi]

IsFull(i) == i.Lo = -Pi /\ i.Hi = Pi
IsEmpty(i) == i.Lo = Pi /\ i.Hi = -Pi
IsInverted(i) == i.Lo > i.Hi

IntervalFromEndpoints(lo, hi) ==
    [Lo |-> IF lo = -Pi /\ hi # Pi THEN Pi ELSE lo,
     Hi |-> IF hi = -Pi /\ lo # Pi THEN Pi ELSE hi]

fastContains(i, p) ==
    IF IsInverted(i)
    THEN (p >= i.Lo \/ p <= i.Hi) /\ ~IsEmpty(i)
    ELSE p >= i.Lo /\ p <= i.Hi

Contains(i, p) == fastContains(i, IF p = -Pi THEN Pi ELSE p)

ContainsInterval(i, oi) ==
    IF IsInverted(i)
    THEN IF IsInverted(oi)
         THEN oi.Lo >= i.Lo /\ oi.Hi <= i.Hi
         ELSE (oi.Lo >= i.Lo \/ oi.Hi <= i.Hi) /\ ~IsEmpty(i)
    ELSE IF IsInverted(oi)
         THEN IsFull(i) \/ IsEmpty(oi)
         ELSE oi.Lo >= i.Lo /\ oi.Hi <= i.Hi

Length(i) ==
    LET l == i.Hi - i.Lo
    IN IF l >= 0 THEN l
       ELSE IF l + TwoPi > 0 THEN l + TwoPi ELSE -1

Intersection(i, oi) ==
    IF IsEmpty(oi) THEN EmptyInterval
    ELSE IF fastContains(i, oi.Lo)
    THEN IF fastContains(i, oi.Hi)
         THEN IF Length(oi) < Length(i) THEN oi ELSE i
         ELSE [Lo |-> oi.Lo, Hi |-> i.Hi]
    ELSE IF fastContains(i, oi.Hi) THEN [Lo |-> i.Lo, Hi |-> oi.Hi]
    ELSE IF fastContains(oi, i.Lo) THEN i
    ELSE EmptyInterval

Complement(i) == IF i.Lo = i.Hi THEN FullInterval ELSE [Lo |-> i.Hi, Hi |-> i.Lo]

\* math.Remainder(x, 2*pi) for x in (-3*pi, 3*pi): pi and -pi are kept as they are.
Remainder(x) ==
    IF x > Pi THEN x - TwoPi
    ELSE IF x < -Pi THEN x + TwoPi
    ELSE x

Expanded(i, margin) ==
    IF margin >= 0 /\ IsEmpty(i) THEN i
    ELSE IF margin >= 0 /\ Length(i) + 2 * margin >= TwoPi THEN FullInterval
    ELSE IF margin < 0 /\ IsFull(i) THEN i
    ELSE IF margin < 0 /\ Length(i) + 2 * margin <= 0 THEN EmptyInterval
    ELSE LET result == IntervalFromEndpoints(Remainder(i.Lo - margin),
                                             Remainder(i.Hi + margin))
         IN IF result.Lo <= -Pi THEN [result EXCEPT !.Lo = Pi] ELSE result

---------------------------------------------------------------------------
(* Points, chord angles and the half-angle subtended by a disc *)

RightChordAngle == 16
StraightChordAngle == 2 * RightChordAngle
AbsErr == 1
RoundErr == 1

ChordAngles == {c \in 0..StraightChordAngle : c % 2 = 0}

\* ChordAngleBetweenPoints(p.src, pt)
ChordAngleBetweenPoints(pt) == pt.a2

\* math.Atan2(pt.Dot(p.yDir.Vector), pt.Dot(p.xDir.Vector))
direction(pt) == pt.dir

\* (2 * QuarterTurn)^3 * sin^2 of j grid half-steps, sin^2 being approximated by
\* the cubic 3 t^2 - 2 t^3 of t = j / (2 * QuarterTurn), which is increasing and
\* agrees with sin^2(t * pi / 2) at t = 0, 1/2 and 1.
SinSqHalf(j) == 3 * j * j * (2 * QuarterTurn) - 2 * j * j * j

\* math.Asin(math.Sqrt(num / den)), rounded to the nearest grid angle.
AsinSqrt(num, den) ==
    Cardinality({k \in 1..QuarterTurn :
        SinSqHalf(2 * k - 1) * den
            <= num * (2 * QuarterTurn) * (2 * QuarterTurn) * (2 * QuarterTurn)})

semiwidth(pt, r, roundDirection) ==
    LET r2 == r
        a2 == ChordAngleBetweenPoints(pt) - AbsErr * roundDirection
    IN IF a2 <= r2 THEN Pi
       ELSE LET sin2R == r2 * (StraightChordAngle - r2)
                sin2A == a2 * (StraightChordAngle - a2)
                sw == AsinSqrt(sin2R, sin2A)
            IN sw + roundDirection * RoundErr

---------------------------------------------------------------------------
(* PolylineSimplifier *)

\* The simplifier as a value: the fields its methods read and write.
Self == [window |-> window, rangesToAvoid |-> rangesToAvoid]

\* r3.Vector, on whole coordinates.
Vector(x, y, z) == [X |-> x, Y |-> y, Z |-> z]
ZeroVector == Vector(0, 0, 0)
Dot(a, b) == a.X * b.X + a.Y * b.Y + a.Z * b.Z
Cross(a, b) ==
    Vector(a.Y * b.Z - a.Z * b.Y, a.Z * b.X - a.X * b.Z, a.X * b.Y - a.Y * b.X)
Norm2(a) == Dot(a, a)
Abs(x) == IF x < 0 THEN -x ELSE x

\* r3.Vector.SmallestComponent: the axis of the component of smallest
\* magnitude; of components of equal magnitude the later axis is taken.
SmallestComponent(v) ==
    IF Abs(v.X) < Abs(v.Y)
    THEN IF Abs(v.X) < Abs(v.Z) THEN "XAxis" ELSE "ZAxis"
    ELSE IF Abs(v.Y) < Abs(v.Z) THEN "YAxis" ELSE "ZAxis"

\* The unit vector of an axis.
AxisVector(axis) ==
    CASE axis = "XAxis" -> Vector(1, 0, 0)
      [] axis = "YAxis" -> Vector(0, 1, 0)
      [] axis = "ZAxis" -> Vector(0, 0, 1)

\* NewPolylineSimplifier: the window is full, nothing is deferred, and the
\* frame is written out for the axis SmallestComponent returns.
NewPolylineSimplifier(s) ==
    LET c == SmallestComponent(s)
    IN [src |-> s,
        window |-> FullInterval,
        rangesToAvoid |-> <<>>,
        yDir |-> IF c = "XAxis" THEN Vector(0, s.Z, -s.Y)
                 ELSE IF c = "YAxis" THEN Vector(s.Y, -s.X, 0)
                 ELSE Vector(-s.Z, 0, s.X),
        xDir |-> IF c = "XAxis" THEN Vector(s.Y * s.Y + s.Z * s.Z, -s.Y * s.X, -s.Z * s.X)
                 ELSE IF c = "YAxis" THEN Vector(-s.X * s.Z, -s.Y * s.Z, s.X * s.X + s.Y * s.Y)
                 ELSE Vector(-s.X * s.Y, s.Z * s.Z + s.X * s.X, -s.Z * s.Y)]

avoidRange_NoContainsCheck(w, avoidInterval, discOnLeft) ==
    IF discOnLeft
    THEN IntervalFromEndpoints(w.Lo, avoidInterval.Lo)
    ELSE IntervalFromEndpoints(avoidInterval.Hi, w.Hi)

\* A faulty avoidRange: the sides of discOnLeft are taken for one another.
avoidRange_SidesSwapped(w, avoidInterval, discOnLeft) ==
    IF ContainsInterval(w, avoidInterval)
    THEN IF discOnLeft
         THEN IntervalFromEndpoints(avoidInterval.Hi, w.Hi)
         ELSE IntervalFromEndpoints(w.Lo, avoidInterval.Lo)
    ELSE Intersection(w, Complement(avoidInterval))

\* avoidRange: the window left by one range to avoid.
avoidRange(w, avoidInterval, discOnLeft) ==
    IF ContainsInterval(w, avoidInterval)
    THEN IF discOnLeft
         THEN IntervalFromEndpoints(w.Lo, avoidInterval.Lo)
         ELSE IntervalFromEndpoints(avoidInterval.Hi, w.Hi)
    ELSE Intersection(w, Complement(avoidInterval))

\* The loop of TargetDisc over p.rangesToAvoid, from entry k on: s.window is the
\* window so far, s.applied the entries avoidRange has been called with.
RECURSIVE avoidRanges(_, _, _)
avoidRanges(s, ranges, k) ==
    IF k > Len(ranges) THEN s
    ELSE avoidRanges([window |-> avoidRange(s.window, ranges[k].interval, ranges[k].onLeft),
                      applied |-> Append(s.applied, ranges[k])],
                     ranges, k + 1)

\* A faulty TargetDisc: for a disc that contains the source, the ranges to
\* avoid are processed all the same.
TargetDisc_AlwaysProcesses(p, pt, r) ==
    LET sw == semiwidth(pt, r, -1)
    IN IF sw < 0
       THEN [window |-> EmptyInterval, rangesToAvoid |-> p.rangesToAvoid, ret |-> FALSE,
             applied |-> <<>>]
       ELSE LET center == direction(pt)
                target == Expanded(IntervalFromEndpoints(center, center), sw)
                s == avoidRanges([window |-> IF sw >= Pi THEN p.window
                                             ELSE Intersection(p.window, target),
                                  applied |-> <<>>],
                                 p.rangesToAvoid, 1)
            IN [window |-> s.window, rangesToAvoid |-> <<>>,
                ret |-> sw >= Pi \/ ~IsEmpty(s.window), applied |-> s.applied]

\* A faulty TargetDisc: a disc that cannot be reached leaves the window alone.
TargetDisc_KeepsWindowOnFailure(p, pt, r) ==
    LET sw == semiwidth(pt, r, -1)
    IN IF sw >= Pi
       THEN [window |-> p.window, rangesToAvoid |-> p.rangesToAvoid, ret |-> TRUE,
             applied |-> <<>>]
       ELSE IF sw < 0
       THEN [window |-> p.window, rangesToAvoid |-> p.rangesToAvoid, ret |-> FALSE,
             applied |-> <<>>]
       ELSE LET center == direction(pt)
                target == Expanded(IntervalFromEndpoints(center, center), sw)
                s == avoidRanges([window |-> Intersection(p.window, target),
                                  applied |-> <<>>],
                                 p.rangesToAvoid, 1)
            IN [window |-> s.window, rangesToAvoid |-> <<>>, ret |-> ~IsEmpty(s.window),
                applied |-> s.applied]

\* A faulty TargetDisc: the window becomes the target interval.
TargetDisc_ReplacesWindow(p, pt, r) ==
    LET sw == semiwidth(pt, r, -1)
    IN IF sw >= Pi
       THEN [window |-> p.window, rangesToAvoid |-> p.rangesToAvoid, ret |-> TRUE,
             applied |-> <<>>]
       ELSE IF sw < 0
       THEN [window |-> EmptyInterval, rangesToAvoid |-> p.rangesToAvoid, ret |-> FALSE,
             applied |-> <<>>]
       ELSE LET center == direction(pt)
                target == Expanded(IntervalFromEndpoints(center, center), sw)
                s == avoidRanges([window |-> target, applied |-> <<>>],
                                 p.rangesToAvoid, 1)
            IN [window |-> s.window, rangesToAvoid |-> <<>>, ret |-> ~IsEmpty(s.window),
                applied |-> s.applied]

\* A faulty TargetDisc: the ranges to avoid are processed and kept.
TargetDisc_KeepsQueue(p, pt, r) ==
    LET sw == semiwidth(pt, r, -1)
    IN IF sw >= Pi
       THEN [window |-> p.window, rangesToAvoid |-> p.rangesToAvoid, ret |-> TRUE,
             applied |-> <<>>]
       ELSE IF sw < 0
       THEN [window |-> EmptyInterval, rangesToAvoid |-> p.rangesToAvoid, ret |-> FALSE,
             applied |-> <<>>]
       ELSE LET center == direction(pt)
                target == Expanded(IntervalFromEndpoints(center, center), sw)
                s == avoidRanges([window |-> Intersection(p.window, target),
                                  applied |-> <<>>],
                                 p.rangesToAvoid, 1)
            IN [window |-> s.window, rangesToAvoid |-> p.rangesToAvoid,
                ret |-> ~IsEmpty(s.window), applied |-> s.applied]

TargetDisc(p, pt, r) ==
    LET sw == semiwidth(pt, r, -1)
    IN IF sw >= Pi
       THEN [window |-> p.window, rangesToAvoid |-> p.rangesToAvoid, ret |-> TRUE,
             applied |-> <<>>]
       ELSE IF sw < 0
       THEN [window |-> EmptyInterval, rangesToAvoid |-> p.rangesToAvoid, ret |-> FALSE,
             applied |-> <<>>]
       ELSE LET center == direction(pt)
                target == Expanded(IntervalFromEndpoints(center, center), sw)
                s == avoidRanges([window |-> Intersection(p.window, target),
                                  applied |-> <<>>],
                                 p.rangesToAvoid, 1)
            IN [window |-> s.window, rangesToAvoid |-> <<>>, ret |-> ~IsEmpty(s.window),
                applied |-> s.applied]

\* The range of directions CanAvoidDisc disallows for a disc that does not
\* contain the source.
\* A faulty forbidden interval: the quarter turn is on the side of the disc
\* that has to be avoided strictly, the semiwidth on the other side.
avoidInterval_SidesSwapped(point, radius, discOnLeft) ==
    LET sw == semiwidth(point, radius, 1)
        center == direction(point)
        dLeft == IF discOnLeft THEN sw ELSE QuarterTurn
        dRight == IF discOnLeft THEN QuarterTurn ELSE sw
    IN IntervalFromEndpoints(Remainder(center - dRight), Remainder(center + dLeft))

avoidInterval(point, radius, discOnLeft) ==
    LET sw == semiwidth(point, radius, 1)
        center == direction(point)
        dLeft == IF discOnLeft THEN QuarterTurn ELSE sw
        dRight == IF discOnLeft THEN sw ELSE QuarterTurn
    IN IntervalFromEndpoints(Remainder(center - dRight), Remainder(center + dLeft))

\* A faulty CanAvoidDisc: the range is processed at once, whatever the window.
CanAvoidDisc_NeverDefers(p, point, radius, discOnLeft) ==
    IF semiwidth(point, radius, 1) >= Pi
    THEN [window |-> EmptyInterval, rangesToAvoid |-> p.rangesToAvoid, ret |-> FALSE,
          applied |-> <<>>]
    ELSE LET w == avoidRange(p.window, avoidInterval(point, radius, discOnLeft),
                             discOnLeft)
         IN [window |-> w, rangesToAvoid |-> p.rangesToAvoid, ret |-> ~IsEmpty(w),
             applied |-> <<>>]

\* A faulty CanAvoidDisc: the range is saved for later, whatever the window.
CanAvoidDisc_AlwaysDefers(p, point, radius, discOnLeft) ==
    IF semiwidth(point, radius, 1) >= Pi
    THEN [window |-> EmptyInterval, rangesToAvoid |-> p.rangesToAvoid, ret |-> FALSE,
          applied |-> <<>>]
    ELSE [window |-> p.window,
          rangesToAvoid |-> Append(p.rangesToAvoid,
              [interval |-> avoidInterval(point, radius, discOnLeft),
               onLeft |-> discOnLeft]),
          ret |-> TRUE,
          applied |-> <<>>]

CanAvoidDisc(p, point, radius, discOnLeft) ==
    IF semiwidth(point, radius, 1) >= Pi
    THEN [window |-> EmptyInterval, rangesToAvoid |-> p.rangesToAvoid, ret |-> FALSE,
          applied |-> <<>>]
    ELSE IF IsFull(p.window)
    THEN [window |-> p.window,
          rangesToAvoid |-> Append(p.rangesToAvoid,
              [interval |-> avoidInterval(point, radius, discOnLeft),
               onLeft |-> discOnLeft]),
          ret |-> TRUE,
          applied |-> <<>>]
    ELSE LET w == avoidRange(p.window, avoidInterval(point, radius, discOnLeft),
                             discOnLeft)
         IN [window |-> w, rangesToAvoid |-> p.rangesToAvoid, ret |-> ~IsEmpty(w),
             applied |-> <<>>]

\* A faulty CanExtend: the ranges to avoid it has tested are dropped.
afterCanExtend_DropsDeferred(p, dst) == [p EXCEPT !.rangesToAvoid = <<>>]

\* The simplifier CanExtend leaves behind: it assigns to no field of p.
afterCanExtend(p, dst) == p

\* A faulty CanExtend: edges longer than 90 degrees are accepted.
CanExtend_NoLengthLimit(p, dst) ==
    /\ Contains(p.window, direction(dst))
    /\ \A k \in 1..Len(p.rangesToAvoid) :
          ~Contains(p.rangesToAvoid[k].interval, direction(dst))

CanExtend_NoDeferred(p, dst) ==
    /\ ~(ChordAngleBetweenPoints(dst) > RightChordAngle)
    /\ Contains(p.window, direction(dst))

CanExtend(p, dst) ==
    IF ChordAngleBetweenPoints(dst) > RightChordAngle THEN FALSE
    ELSE IF ~Contains(p.window, direction(dst)) THEN FALSE
    ELSE \A k \in 1..Len(p.rangesToAvoid) :
            ~Contains(p.rangesToAvoid[k].interval, direction(dst))

---------------------------------------------------------------------------
(* The calls made on one simplifier *)

\* The centres of the discs registered: the source itself (for which math.Atan2
\* returns 0) and points at 90 degrees from it, on both values math.Atan2 gives
\* the bearing at the cut of the circle, and on two bearings close enough for
\* the forbidden interval of a disc on one to lie inside the target interval
\* of a disc on the other.  The radii: a point, and a disc just short of 90
\* degrees.
DiscBearings == {-Pi, 0, 3, Pi}
DiscPoints == {[dir |-> 0, a2 |-> 0]} \cup [dir : DiscBearings, a2 : {RightChordAngle}]
Radii == {0, RightChordAngle - 2}

\* The destinations tried: the source itself, and points at 90 degrees from the
\* source and beyond.
Destinations ==
    {[dir |-> 0, a2 |-> 0]} \cup [dir : Angles, a2 : {RightChordAngle, RightChordAngle + 2}]

\* Bearings as points of the circle: -pi and pi are the same bearing.
Bearings == (1 - Pi)..Pi
Bearing(a) == IF a = -Pi THEN Pi ELSE a

\* The angle between two bearings, in 0..Pi.
CircDist(a, b) ==
    LET d == (a - b) % TwoPi
    IN IF d > Pi THEN TwoPi - d ELSE d

\* The signed turn from bearing b to bearing a, in (-Pi, Pi].
Turn(a, b) ==
    LET d == (a - b) % TwoPi
    IN IF d > Pi THEN d - TwoPi ELSE d

\* The bearings that meet a target disc: all of them for a disc that contains
\* the source, else those within the semiwidth of the disc's centre.
MeetsTarget(pt, r) ==
    LET sw == semiwidth(pt, r, -1)
    IN IF sw >= Pi THEN Bearings
       ELSE {b \in Bearings : CircDist(b, direction(pt)) <= sw}

\* The bearings that are not inside the forbidden interval of an avoid disc:
\* none for a disc that contains the source.
MeetsAvoid(point, radius, discOnLeft) ==
    LET sw == semiwidth(point, radius, 1)
        dLeft == IF discOnLeft THEN QuarterTurn ELSE sw
        dRight == IF discOnLeft THEN sw ELSE QuarterTurn
    IN IF sw >= Pi THEN {}
       ELSE {b \in Bearings :
                ~(-dRight < Turn(b, direction(point)) /\ Turn(b, direction(point)) < dLeft)}

DecoderIdle == UNCHANGED decoderVars

\* The source vertex and the frame are set by the constructor only.
FrameKept == UNCHANGED <<src, xDir, yDir>>

\* The sources a simplifier is built on: the points of whole coordinates, the
\* origin left out.  They stand for the unit points in their directions.
Coords == (-MaxCoord)..MaxCoord
Sources == {Vector(x, y, z) : x \in Coords, y \in Coords, z \in Coords} \ {ZeroVector}

\* p := NewPolylineSimplifier(s): a new simplifier takes the place of the old one.
DoNewPolylineSimplifier ==
    \E p \in {NewPolylineSimplifier(s) : s \in Sources} :
        /\ src' = p.src
        /\ xDir' = p.xDir
        /\ yDir' = p.yDir
        /\ window' = p.window
        /\ rangesToAvoid' = p.rangesToAvoid
        /\ op' = "New"
        /\ ret' = TRUE
        /\ permitted' = Bearings
        /\ applied' = <<>>
        /\ DecoderIdle

DoTargetDisc ==
    \E pt \in DiscPoints, r \in Radii :
        \E res \in {TargetDisc(Self, pt, r)} :
           /\ window' = res.window
           /\ rangesToAvoid' = res.rangesToAvoid
           /\ op' = "TargetDisc"
           /\ ret' = res.ret
           /\ applied' = res.applied
           /\ permitted' = permitted \cap MeetsTarget(pt, r)
           /\ FrameKept
           /\ DecoderIdle

DoCanAvoidDisc ==
    \E point \in DiscPoints, radius \in Radii, discOnLeft \in BOOLEAN :
        \E res \in {CanAvoidDisc(Self, point, radius, discOnLeft)} :
           /\ Len(res.rangesToAvoid) <= MaxQueue
           /\ window' = res.window
           /\ rangesToAvoid' = res.rangesToAvoid
           /\ op' = "CanAvoidDisc"
           /\ ret' = res.ret
           /\ applied' = res.applied
           /\ permitted' = permitted \cap MeetsAvoid(point, radius, discOnLeft)
           /\ FrameKept
           /\ DecoderIdle

\* CanExtend is tried on every destination; the call recorded is one of those
\* that end alike.
DoCanExtend ==
    \E res \in {[after |-> afterCanExtend(Self, dst), ret |-> CanExtend(Self, dst)] :
                   dst \in Destinations} :
        /\ window' = res.after.window
        /\ rangesToAvoid' = res.after.rangesToAvoid
        /\ op' = "CanExtend"
        /\ ret' = res.ret
        /\ applied' = <<>>
        /\ UNCHANGED permitted
        /\ FrameKept
        /\ DecoderIdle

---------------------------------------------------------------------------
(* The index, its shapes and its cells, as indexCellData sees them *)

MaxShapeID == 2
MaxComputes == 2

\* The indexes a decoder is handed; 0 stands for the nil *ShapeIndex.
Indexes == {1, 2}
ShapeIDs == 0..MaxShapeID

\* Shape.Dimension(): the first index holds polygons, polylines and points, the
\* second one polylines and points only.
Dimension(ix, shapeID) ==
    IF ix = 1 THEN (2 * (shapeID + 1)) % 3 ELSE (shapeID + 1) % 2

\* The lengths of the chains of a shape: two chains, of one edge and of one or
\* two edges.
ChainLengths(shapeID) == <<1, 1 + (shapeID % 2)>>

NumEdges(shapeID) == ChainLengths(shapeID)[1] + ChainLengths(shapeID)[2]

\* Shape.ChainPosition(edgeID): the chain of the edge and its offset in it.
RECURSIVE ChainPositionFrom(_, _, _)
ChainPositionFrom(shapeID, e, chainID) ==
    IF e < ChainLengths(shapeID)[chainID + 1]
    THEN [ChainID |-> chainID, Offset |-> e]
    ELSE ChainPositionFrom(shapeID, e - ChainLengths(shapeID)[chainID + 1], chainID + 1)

ChainPosition(shapeID, edgeID) == ChainPositionFrom(shapeID, edgeID, 0)

\* Shape.ChainEdge(chainID, offset).  Vertices are numbers standing for points,
\* compared as Point.Cmp compares; along a shape they run downwards, so that
\* the order of the edge ids is not the order of the coordinates.
ChainEdge(ix, shapeID, chainID, offset) ==
    LET v == 100 * ix + 10 * (MaxShapeID + 1 - shapeID) - 3 * chainID - offset
    IN [V0 |-> v, V1 |-> IF Dimension(ix, shapeID) = 0 THEN v ELSE v - 1]

\* The edge ids a cell holds of a shape: all of them, all but the first for
\* the shapes of odd id, and none for every fourth shape (a shape that covers
\* the cell without an edge in it).
ClippedEdges(shapeID) ==
    IF shapeID % 4 = 3 THEN <<>>
    ELSE IF shapeID % 2 = 1
    THEN [k \in 1..(NumEdges(shapeID) - 1) |-> k]
    ELSE [k \in 1..NumEdges(shapeID) |-> k - 1]

clippedShape(shapeID) == [shapeID |-> shapeID, edges |-> ClippedEdges(shapeID)]

\* The clipped shapes of a set of shape ids, by ascending shape id.
RECURSIVE ShapesOf(_)
ShapesOf(ids) ==
    IF ids = {} THEN <<>>
    ELSE LET m == CHOOSE x \in ids : \A y \in ids : x <= y
         IN <<clippedShape(m)>> \o ShapesOf(ids \ {m})

\* The nil *ShapeIndexCell a new decoder holds.
NilCell == [shapes |-> <<>>, nil |-> TRUE]

\* A *ShapeIndexCell, by its contents.
ShapeIndexCell(ids) == [shapes |-> ShapesOf(ids), nil |-> FALSE]

\* Cell ids of a hierarchy of one face and one level of subdivision: the face
\* cell is 4, its children are 1, 3, 5 and 7.
CellIDs == {1, 4}

\* The cell an index iterator hands out for a cell id.  The contents of a cell
\* change when shapes are added to the index or removed from it: each cell id
\* has its contents before (version 0) and after (version 1) such a change.
Versions == {0, 1}
IndexCell(id, version) ==
    IF id = 1
    THEN ShapeIndexCell(IF version = 0 THEN ShapeIDs ELSE ShapeIDs \ {0})
    ELSE ShapeIndexCell(IF version = 0 THEN ShapeIDs \ {1} ELSE {0})
Cells == {IndexCell(id, version) : id \in CellIDs, version \in Versions}

Level(id) == IF id % 2 = 1 THEN 1 ELSE 0

\* CellFromCellID
CellFromCellID(id) == [face |-> id \div 8, level |-> Level(id), id |-> id]

\* CellID.Point(): the centre of the cell, in quarters of the face.
CellIDPoint(id) ==
    IF Level(id) = 0 THEN [face |-> id \div 8, si |-> 2, ti |-> 2]
    ELSE LET k == (id % 8) \div 2
         IN [face |-> id \div 8,
             si |-> IF k \in {2, 3} THEN 3 ELSE 1,
             ti |-> IF k \in {1, 2} THEN 3 ELSE 1]

ZeroCell == [face |-> 0, level |-> 0, id |-> 0]
ZeroPoint == [face |-> 0, si |-> 0, ti |-> 0]

---------------------------------------------------------------------------
(* indexCellData *)

region(start, size) == [start |-> start, size |-> size]

\* The decoder as a value: the fields its methods read and write.
Data == [index |-> index, cell |-> cell, cellID |-> cellID,
         s2CellSet |-> s2CellSet, s2Cell |-> s2Cell,
         cellCenterSet |-> cellCenterSet, cellCenter |-> cellCenter,
         dimWanted |-> dimWanted,
         edges |-> edges, shapeRegions |-> shapeRegions, dimRegions |-> dimRegions]

\* var data indexCellData: every field holds its zero value.
ZeroData == [index |-> 0, cell |-> NilCell, cellID |-> 0,
             s2CellSet |-> FALSE, s2Cell |-> ZeroCell,
             cellCenterSet |-> FALSE, cellCenter |-> ZeroPoint,
             dimWanted |-> [d \in 0..2 |-> FALSE],
             edges |-> <<>>, shapeRegions |-> <<>>,
             dimRegions |-> [d \in 0..2 |-> region(0, 0)]]

Cell_KeepsFirstValue(i) ==
    LET c == IF i.s2Cell # ZeroCell THEN i.s2Cell ELSE CellFromCellID(i.cellID)
    IN [data |-> [i EXCEPT !.s2Cell = c, !.s2CellSet = TRUE], ret |-> c]

Cell(i) ==
    LET c == CellFromCellID(i.cellID)
    IN [data |-> [i EXCEPT !.s2Cell = c, !.s2CellSet = TRUE], ret |-> c]

Center(i) ==
    LET c == CellIDPoint(i.cellID)
    IN [data |-> [i EXCEPT !.cellCenter = c, !.cellCenterSet = TRUE], ret |-> c]

edgeAndIDChainFromChainPos(edge, edgeID, pos) ==
    [edge |-> edge, edgeID |-> edgeID, chain |-> pos.ChainID, offset |-> pos.Offset]

\* The loop over the edges of one clipped shape, from edge k on (k counts from 0).
RECURSIVE appendEdges(_, _, _, _)
appendEdges(buf, ix, clipped, k) ==
    IF k >= Len(clipped.edges) THEN buf
    ELSE LET edgeID == clipped.edges[k + 1]
             position == ChainPosition(clipped.shapeID, edgeID)
             edge == ChainEdge(ix, clipped.shapeID, position.ChainID, position.Offset)
         IN appendEdges(Append(buf, edgeAndIDChainFromChainPos(edge, edgeID, position)),
                        ix, clipped, k + 1)

RECURSIVE loadShapes(_, _, _)

\* A faulty loop over the clipped shapes: a shape of the current dimension is
\* decoded whether or not the dimension is wanted.
loadShapes_IgnoresWanted(i, dim, n) ==
    IF n > Len(i.cell.shapes) THEN i
    ELSE LET clipped == i.cell.shapes[n]
         IN IF Dimension(i.index, clipped.shapeID) # dim THEN loadShapes(i, dim, n + 1)
            ELSE LET shapeStart == Len(i.edges)
                     buf == appendEdges(i.edges, i.index, clipped, 0)
                 IN loadShapes(
                        [i EXCEPT !.edges = buf,
                                  !.shapeRegions = Append(@,
                                      [shapeID |-> clipped.shapeID,
                                       region |-> region(shapeStart, Len(buf) - shapeStart)])],
                        dim, n + 1)

\* The loop over the clipped shapes of the cell for one dimension, from shape n on.
loadShapes(i, dim, n) ==
    IF n > Len(i.cell.shapes) THEN i
    ELSE LET clipped == i.cell.shapes[n]
         IN IF Dimension(i.index, clipped.shapeID) # dim THEN loadShapes(i, dim, n + 1)
            ELSE IF ~i.dimWanted[dim] THEN loadShapes(i, dim, n + 1)
            ELSE LET shapeStart == Len(i.edges)
                     buf == appendEdges(i.edges, i.index, clipped, 0)
                 IN loadShapes(
                        [i EXCEPT !.edges = buf,
                                  !.shapeRegions = Append(@,
                                      [shapeID |-> clipped.shapeID,
                                       region |-> region(shapeStart, Len(buf) - shapeStart)])],
                        dim, n + 1)

RECURSIVE loadDims(_, _, _)

\* A faulty loop over the dimensions: the size of a dimension's region is
\* counted from the start of the buffer.
loadDims_SizeFromZero(i, dim, maxDim) ==
    IF dim > maxDim THEN i
    ELSE LET dimStart == Len(i.edges)
             j == loadShapes(i, dim, 1)
         IN loadDims([j EXCEPT !.dimRegions[dim] = region(dimStart, Len(j.edges))],
                     dim + 1, maxDim)

\* The loop over the dimensions minDim..maxDim, from dim on.
loadDims(i, dim, maxDim) ==
    IF dim > maxDim THEN i
    ELSE LET dimStart == Len(i.edges)
             j == loadShapes(i, dim, 1)
         IN loadDims([j EXCEPT !.dimRegions[dim] = region(dimStart, Len(j.edges) - dimStart)],
                     dim + 1, maxDim)

\* for minDim <= 2 && !i.dimWanted[minDim] { minDim++ }
RECURSIVE minDimFrom(_, _)
minDimFrom(i, minDim) ==
    IF minDim <= 2 /\ ~i.dimWanted[minDim] THEN minDimFrom(i, minDim + 1) ELSE minDim

\* for maxDim >= 0 && !i.dimWanted[maxDim] { maxDim-- }
RECURSIVE maxDimFrom(_, _)
maxDimFrom(i, maxDim) ==
    IF maxDim >= 0 /\ ~i.dimWanted[maxDim] THEN maxDimFrom(i, maxDim - 1) ELSE maxDim

resetCell_KeepsEdges(i, ix, id, c) ==
    [i EXCEPT !.index = ix, !.cell = c, !.cellID = id,
              !.s2CellSet = FALSE, !.cellCenterSet = FALSE,
              !.shapeRegions = <<>>,
              !.dimRegions = [d \in 0..2 |-> region(0, 0)]]

\* The first part of LoadCell past its early return: the arguments are stored,
\* the flags reset, the edges and the regions cleared.
resetCell(i, ix, id, c) ==
    [i EXCEPT !.index = ix, !.cell = c, !.cellID = id,
              !.s2CellSet = FALSE, !.cellCenterSet = FALSE,
              !.edges = <<>>, !.shapeRegions = <<>>,
              !.dimRegions = [d \in 0..2 |-> region(0, 0)]]

\* The rest of LoadCell: the edges of the wanted dimensions are decoded.
decodeCell(i) ==
    LET minDim == minDimFrom(i, 0)
        maxDim == maxDimFrom(i, 2)
    IN IF minDim > 2 \/ maxDim < 0 THEN i
       ELSE loadDims(i, minDim, maxDim)

\* edgeAndIDChain.Less, on the numbers that stand for the vertices.
Less(e, y) ==
    \/ e.edge.V0 < y.edge.V0
    \/ e.edge.V0 = y.edge.V0 /\ e.edge.V1 < y.edge.V1

\* A sequence in the order of Less (its entries are distinct edges).
SortedByLess(seq) ==
    [p \in 1..Len(seq) |->
        CHOOSE e \in {seq[q] : q \in 1..Len(seq)} :
            Cardinality({q \in 1..Len(seq) : Less(seq[q], e)}) = p - 1]

LoadCell_SortsEdges(i, ix, id, c) ==
    IF i.index = ix /\ i.cellID = id THEN i
    ELSE [decodeCell(resetCell(i, ix, id, c)) EXCEPT !.edges = SortedByLess(@)]

LoadCell_ComparesCell(i, ix, id, c) ==
    IF i.index = ix /\ i.cellID = id /\ i.cell = c THEN i
    ELSE decodeCell(resetCell(i, ix, id, c))

LoadCell(i, ix, id, c) ==
    IF i.index = ix /\ i.cellID = id THEN i
    ELSE decodeCell(resetCell(i, ix, id, c))

---------------------------------------------------------------------------
(* The calls made on one decoder *)

\* The dimWanted a decoder is built with, when the code that builds it sets it.
Configurations == {[d \in 0..2 |-> TRUE], [d \in 0..2 |-> d # 1]}

NoResult == [none |-> TRUE]

SetData(d) ==
    /\ index' = d.index
    /\ cell' = d.cell
    /\ cellID' = d.cellID
    /\ s2CellSet' = d.s2CellSet
    /\ s2Cell' = d.s2Cell
    /\ cellCenterSet' = d.cellCenterSet
    /\ cellCenter' = d.cellCenter
    /\ dimWanted' = d.dimWanted
    /\ edges' = d.edges
    /\ shapeRegions' = d.shapeRegions
    /\ dimRegions' = d.dimRegions

SimplifierIdle == UNCHANGED simplifierVars

DoLoadCell ==
    \E ix \in Indexes, id \in CellIDs, version \in Versions :
      \E c \in {IndexCell(id, version)}, d \in {LoadCell(Data, ix, id, IndexCell(id, version))} :
        /\ SetData(d)
        /\ dop' = "LoadCell"
        /\ dret' = NoResult
        /\ loadArg' = [index |-> ix, id |-> id, cell |-> c]
        /\ cellComputes' = IF index = ix /\ cellID = id THEN cellComputes ELSE 0
        /\ centerComputes' = IF index = ix /\ cellID = id THEN centerComputes ELSE 0
        /\ UNCHANGED configured
        /\ SimplifierIdle

\* Cell() and Center() are called on a decoder that has loaded a cell.
DoCell ==
    /\ index # 0
    /\ cellComputes < MaxComputes
    /\ \E res \in {Cell(Data)} : SetData(res.data) /\ dret' = res.ret
    /\ dop' = "Cell"
    /\ cellComputes' = cellComputes + 1
    /\ UNCHANGED <<configured, loadArg, centerComputes>>
    /\ SimplifierIdle

DoCenter ==
    /\ index # 0
    /\ centerComputes < MaxComputes
    /\ \E res \in {Center(Data)} : SetData(res.data) /\ dret' = res.ret
    /\ dop' = "Center"
    /\ centerComputes' = centerComputes + 1
    /\ UNCHANGED <<configured, loadArg, cellComputes>>
    /\ SimplifierIdle

---------------------------------------------------------------------------
(* Specifications *)

\* The simplifier built on source s.
Built(s) ==
    \E p \in {NewPolylineSimplifier(s)} :
        /\ src = p.src
        /\ xDir = p.xDir
        /\ yDir = p.yDir
        /\ window = p.window
        /\ rangesToAvoid = p.rangesToAvoid

\* The source of the simplifier whose calls are followed: the disc centres and
\* the destinations are given by their bearing and distance from it.
SimplifierSrc == Vector(1, 0, 0)

InitSimplifier ==
    /\ Built(SimplifierSrc)
    /\ op = "New"
    /\ ret = TRUE
    /\ permitted = Bearings
    /\ applied = <<>>

\* A decoder is the zero value of its type, or a literal that sets dimWanted.
InitDecoder ==
    /\ dimWanted \in (IF configured THEN Configurations ELSE {ZeroData.dimWanted})
    /\ index = ZeroData.index
    /\ cell = ZeroData.cell
    /\ cellID = ZeroData.cellID
    /\ s2CellSet = ZeroData.s2CellSet
    /\ s2Cell = ZeroData.s2Cell
    /\ cellCenterSet = ZeroData.cellCenterSet
    /\ cellCenter = ZeroData.cellCenter
    /\ edges = ZeroData.edges
    /\ shapeRegions = ZeroData.shapeRegions
    /\ dimRegions = ZeroData.dimRegions
    /\ dop = "New"
    /\ dret = NoResult
    /\ loadArg = [index |-> 0, id |-> 0, cell |-> NilCell]
    /\ cellComputes = 0
    /\ centerComputes = 0

\* One simplifier, beside a decoder that is left alone.
InitS == InitSimplifier /\ configured = FALSE /\ InitDecoder
NextS == DoTargetDisc \/ DoCanAvoidDisc \/ DoCanExtend
SpecSimplifier == InitS /\ [][NextS]_vars

\* Simplifiers built on every source, beside a decoder that is left alone.
InitC ==
    /\ \E s \in Sources : Built(s)
    /\ op = "New"
    /\ ret = TRUE
    /\ permitted = Bearings
    /\ applied = <<>>
    /\ configured = FALSE
    /\ InitDecoder
NextC == DoNewPolylineSimplifier
SpecConstruction == InitC /\ [][NextC]_vars

\* One decoder, beside a simplifier that is left alone.
InitD == InitSimplifier /\ configured \in BOOLEAN /\ InitDecoder
NextD == DoLoadCell \/ DoCell \/ DoCenter
SpecDecoder == InitD /\ [][NextD]_vars

---------------------------------------------------------------------------
(* Claims about PolylineSimplifier *)

\* C1: after any sequence of TargetDisc and CanAvoidDisc calls, CanExtend(dst)
\* returns true only if the bearing of dst lies inside the bearing interval of
\* every target disc registered that does not contain the source, and outside
\* the interior of the forbidden interval of every avoid disc registered,
\* applied to the window already or still deferred.
C1_ExtendMeetsEveryConstraint ==
    \A dst \in Destinations :
        CanExtend(Self, dst) => Bearing(direction(dst)) \in permitted

\* CanExtend has returned true while avoid discs are deferred, and some bearing
\* of the window is refused because of them.
C1_Witness ==
    /\ op = "CanExtend"
    /\ ret = TRUE
    /\ rangesToAvoid # <<>>
    /\ \E dst \in Destinations :
          /\ ChordAngleBetweenPoints(dst) <= RightChordAngle
          /\ Contains(window, direction(dst))
          /\ ~CanExtend(Self, dst)

\* C2: once the window is empty it is empty in every later state, and CanExtend
\* returns false for every destination.
C2_EmptyWindowIsPermanent ==
    [][IsEmpty(window) =>
          /\ IsEmpty(window')
          /\ \A dst \in Destinations :
                ~CanExtend([window |-> window', rangesToAvoid |-> rangesToAvoid'], dst)]_vars

\* A constraint call has been made on a window that was empty before it:
\* TargetDisc returns true only without touching the window.
C2_Witness ==
    /\ IsEmpty(window)
    /\ op = "TargetDisc"
    /\ ret = TRUE

\* C3: the boolean returned by TargetDisc and by CanAvoidDisc is true exactly
\* when the window is non-empty after the call.
C3_ReturnsWindowNonEmpty ==
    op \in {"TargetDisc", "CanAvoidDisc"} => (ret = ~IsEmpty(window))

---------------------------------------------------------------------------
(* Claims about indexCellData *)

\* The fields of the decoder that hold decoded or cached data.
decoderFields == <<index, cell, cellID, s2CellSet, s2Cell, cellCenterSet, cellCenter,
                   dimWanted, edges, shapeRegions, dimRegions>>

EdgeRecord(ix, shapeID, edgeID) ==
    LET pos == ChainPosition(shapeID, edgeID)
    IN [edge |-> ChainEdge(ix, shapeID, pos.ChainID, pos.Offset),
        edgeID |-> edgeID, chain |-> pos.ChainID, offset |-> pos.Offset]

\* The clipped shapes of a cell that are decoded: those of a wanted dimension.
WantedShapes(ix, c, wanted) ==
    {n \in 1..Len(c.shapes) : wanted[Dimension(ix, c.shapes[n].shapeID)]}

RECURSIVE SumOver(_, _)
SumOver(S, f) ==
    IF S = {} THEN 0
    ELSE LET x == CHOOSE y \in S : TRUE IN f[x] + SumOver(S \ {x}, f)

\* C5: LoadCell with an (index, id) pair other than the loaded one clears both
\* computed flags and rebuilds the edge buffer, the shape regions and the
\* dimension regions from the new cell only.
C5_NewCellReplacesOld ==
    [][(/\ dop' = "LoadCell"
        /\ (loadArg'.index # index \/ loadArg'.id # cellID))
       => LET ix == loadArg'.index
              c == loadArg'.cell
              wantedShapes == WantedShapes(ix, c, dimWanted)
          IN /\ ~s2CellSet'
             /\ ~cellCenterSet'
             /\ \A p \in 1..Len(edges') :
                   \E n \in wantedShapes : \E k \in 1..Len(c.shapes[n].edges) :
                      edges'[p] = EdgeRecord(ix, c.shapes[n].shapeID, c.shapes[n].edges[k])
             /\ Len(edges') = SumOver(wantedShapes, [n \in wantedShapes |-> Len(c.shapes[n].edges)])
             /\ Len(shapeRegions') = Cardinality(wantedShapes)
             /\ \A m \in 1..Len(shapeRegions') :
                   \E n \in wantedShapes : shapeRegions'[m].shapeID = c.shapes[n].shapeID
             /\ SumOver(0..2, [d \in 0..2 |-> dimRegions'[d].size]) = Len(edges')]_vars

\* A cell has been loaded over another one, whose Cell() and Center() had been
\* computed and whose edges had been decoded.
C5_Witness ==
    /\ dop = "LoadCell"
    /\ cell = loadArg.cell
    /\ s2Cell # ZeroCell
    /\ s2Cell.id # cellID
    /\ cellCenter # ZeroPoint
    /\ ~s2CellSet
    /\ ~cellCenterSet
    /\ edges # <<>>

\* C6: between two LoadCell calls that change the loaded (index, id), the cell
\* is derived from the cell id at most once, and so is the centre.
C6_ComputedAtMostOnce ==
    /\ cellComputes <= 1
    /\ centerComputes <= 1

\* C7: Cell() and Center() return the values derived from the cell id handed to
\* the last LoadCell, and different ids give different values: a reload of the
\* same cell leaves both results as they were, loading a cell of another id
\* changes both.
C7_ResultsFollowLoadedID ==
    /\ dop = "Cell" => dret = CellFromCellID(loadArg.id)
    /\ dop = "Center" => dret = CellIDPoint(loadArg.id)
    /\ \A a, b \in CellIDs :
          a # b => /\ CellFromCellID(a) # CellFromCellID(b)
                   /\ CellIDPoint(a) # CellIDPoint(b)

\* Cell() has returned for a cell loaded after another one, of another id, whose
\* Cell() and Center() had been computed.
C7_Witness ==
    /\ dop = "Cell"
    /\ cellCenter # ZeroPoint
    /\ cellCenter # CellIDPoint(cellID)
    /\ cellComputes = 1
    /\ dret = CellFromCellID(cellID)

\* The number of edges a cell holds, over all its shapes.
TotalEdges(c) ==
    SumOver(1..Len(c.shapes), [n \in 1..Len(c.shapes) |-> Len(c.shapes[n].edges)])

\* C8: a decoder that has not been configured wants all three dimensions:
\* LoadCell puts the edges of every shape of the cell into the edge buffer.
C8_DefaultWantsAllDimensions ==
    (~configured /\ dop = "LoadCell") => Len(edges) = TotalEdges(cell)

\* The places of the edge buffer: dimension, place of the shape in the cell,
\* place of the edge id in the shape's clipped edges.
Slots ==
    {s \in (0..2) \X (1..Len(cell.shapes)) \X (1..(MaxShapeID + 3)) :
        /\ dimWanted[s[1]]
        /\ Dimension(index, cell.shapes[s[2]].shapeID) = s[1]
        /\ s[3] <= Len(cell.shapes[s[2]].edges)}

SlotBefore(s, t) ==
    \/ s[1] < t[1]
    \/ s[1] = t[1] /\ s[2] < t[2]
    \/ s[1] = t[1] /\ s[2] = t[2] /\ s[3] < t[3]

\* C9: the edge buffer lists the edges by ascending dimension, within a
\* dimension in the order of the shapes in the cell, within a shape in the
\* order of its stored edge ids.
C9_BufferOrder ==
    /\ Len(edges) = Cardinality(Slots)
    /\ \A s \in Slots :
          LET p == 1 + Cardinality({t \in Slots : SlotBefore(t, s)})
              clipped == cell.shapes[s[2]]
          IN edges[p] = EdgeRecord(index, clipped.shapeID, clipped.edges[s[3]])

\* A cell with edges of all three dimensions is loaded: the shapes come in the
\* buffer in another order than in the cell, and the edges are not in the order
\* of their coordinates.
C9_Witness ==
    /\ dop = "LoadCell"
    /\ \A d \in 0..2 : dimRegions[d].size > 0
    /\ \E m, n \in 1..Len(shapeRegions) :
          m < n /\ shapeRegions[m].shapeID > shapeRegions[n].shapeID
    /\ \E p \in 1..(Len(edges) - 1) : Less(edges[p + 1], edges[p])

regionEnd(r) == r.start + r.size

\* C10: the shape regions are pairwise non-overlapping, each lies inside the
\* region of its shape's dimension, the sizes of the shape regions of a
\* dimension sum to the size of its region, and the sizes of the three
\* dimension regions sum to the length of the edge buffer.
C10_RegionBookkeeping ==
    LET regs == 1..Len(shapeRegions)
        dimOf(m) == Dimension(index, shapeRegions[m].shapeID)
    IN /\ \A m, n \in regs :
             m # n => \/ regionEnd(shapeRegions[m].region) <= shapeRegions[n].region.start
                      \/ regionEnd(shapeRegions[n].region) <= shapeRegions[m].region.start
       /\ \A m \in regs :
             /\ dimRegions[dimOf(m)].start <= shapeRegions[m].region.start
             /\ regionEnd(shapeRegions[m].region) <= regionEnd(dimRegions[dimOf(m)])
       /\ \A d \in 0..2 :
             LET of == {m \in regs : dimOf(m) = d}
             IN SumOver(of, [m \in of |-> shapeRegions[m].region.size]) = dimRegions[d].size
       /\ SumOver(0..2, [d \in 0..2 |-> dimRegions[d].size]) = Len(edges)

\* A cell is loaded that holds two shapes of one dimension and a shape of
\* another, all with edges.
C10_Witness ==
    /\ dop = "LoadCell"
    /\ \E m, n \in 1..Len(shapeRegions) :
          /\ m # n
          /\ Dimension(index, shapeRegions[m].shapeID) = Dimension(index, shapeRegions[n].shapeID)
          /\ shapeRegions[m].region.size > 0
          /\ shapeRegions[n].region.size > 0
    /\ Cardinality({d \in 0..2 : dimRegions[d].size > 0}) >= 2

---------------------------------------------------------------------------
(* Further claims about PolylineSimplifier *)

\* The bearings an interval of angles contains.
BearingsIn(i) == {b \in Bearings : Contains(i, b)}

\* Whether TargetDisc narrows the window with the interval of the disc: the
\* disc does not contain the source and can be reached.
Narrows(pt, r) == semiwidth(pt, r, -1) >= 0 /\ semiwidth(pt, r, -1) < Pi

\* The interval of angles of a target disc.
TargetInterval(pt, r) ==
    Expanded(IntervalFromEndpoints(direction(pt), direction(pt)), semiwidth(pt, r, -1))

\* The window left by the ranges of a queue, each one taken once, in order.
RECURSIVE EachOnce(_, _)
EachOnce(w, ranges) ==
    IF ranges = <<>> THEN w
    ELSE EachOnce(avoidRange(w, Head(ranges).interval, Head(ranges).onLeft), Tail(ranges))

IsPrefix(s, t) == Len(s) <= Len(t) /\ SubSeq(t, 1, Len(s)) = s

\* C11: every TargetDisc and CanAvoidDisc call, a TargetDisc that applies
\* deferred ranges included, leaves a window that is equal to or a subset of
\* the window before the call; in such a TargetDisc every deferred range in
\* turn leaves a subset of the window it is applied to.
C11_WindowOnlyShrinks ==
    [][/\ window' = window \/ BearingsIn(window') \subseteq BearingsIn(window)
       /\ (op' = "TargetDisc" /\ applied' # <<>>)
             => \A pt \in DiscPoints, r \in Radii :
                   (Narrows(pt, r) /\ TargetDisc(Self, pt, r).window = window')
                      => \E narrowed \in {Intersection(window, TargetInterval(pt, r))} :
                            /\ BearingsIn(narrowed) \subseteq BearingsIn(window)
                            /\ \A k \in 1..Len(applied') :
                                  \E before \in {EachOnce(narrowed, SubSeq(applied', 1, k - 1))} :
                                     \E after \in {avoidRange(before, applied'[k].interval,
                                                              applied'[k].onLeft)} :
                                        BearingsIn(after) \subseteq BearingsIn(before)]_vars

\* TargetDisc has narrowed the window and applied deferred ranges, and
\* bearings are left.
C11_Witness ==
    /\ op = "TargetDisc"
    /\ applied # <<>>
    /\ ~IsEmpty(window)
    /\ ~IsFull(window)
    /\ BearingsIn(window) # permitted

\* C12: a deferred range stays in the queue until a TargetDisc call narrows the
\* window; that call hands every range of the queue to avoidRange once, in the
\* order of the queue, and empties the queue, which then stays empty.  No other
\* call removes a range from the queue or applies one.  Wherever a queue is
\* applied, every TargetDisc that narrows applies it whole, and no other
\* TargetDisc touches it.
C12_DeferredAppliedOnce ==
    [][/\ \/ /\ applied' = <<>>
             /\ IsPrefix(rangesToAvoid, rangesToAvoid')
          \/ /\ op' = "TargetDisc"
             /\ applied' = rangesToAvoid
             /\ rangesToAvoid' = <<>>
             /\ ~IsFull(window')
       /\ (rangesToAvoid = <<>> /\ ~IsFull(window)) => rangesToAvoid' = <<>>
       /\ (~IsFull(window') /\ ~IsEmpty(window')) => rangesToAvoid' = <<>>
       /\ (op' = "TargetDisc" /\ applied' # <<>>)
             => \A pt \in DiscPoints, r \in Radii :
                   LET res == TargetDisc(Self, pt, r)
                   IN IF Narrows(pt, r)
                      THEN /\ res.applied = rangesToAvoid
                           /\ res.rangesToAvoid = <<>>
                           /\ res.window
                                 = EachOnce(Intersection(window, TargetInterval(pt, r)),
                                            rangesToAvoid)
                      ELSE /\ res.applied = <<>>
                           /\ res.rangesToAvoid = rangesToAvoid]_vars

\* TargetDisc has applied a queue of two different ranges.
C12_Witness ==
    /\ op = "TargetDisc"
    /\ Len(applied) >= 2
    /\ applied[1] # applied[2]
    /\ rangesToAvoid = <<>>

\* C13: CanAvoidDisc on a full window, with a disc that does not contain the
\* source, leaves the window full, appends one entry to the deferred queue,
\* the forbidden interval of the disc with its discOnLeft flag, and returns
\* true.
C13_FullWindowDefers ==
    [][/\ (op' = "CanAvoidDisc" /\ IsFull(window) /\ ~IsEmpty(window'))
             => /\ IsFull(window')
                /\ ret' = TRUE
                /\ Len(rangesToAvoid') = Len(rangesToAvoid) + 1
                /\ IsPrefix(rangesToAvoid, rangesToAvoid')
       /\ \A point \in DiscPoints, radius \in Radii, discOnLeft \in BOOLEAN :
             (op' = "CanAvoidDisc" /\ IsFull(window) /\ semiwidth(point, radius, 1) < Pi)
                => LET res == CanAvoidDisc(Self, point, radius, discOnLeft)
                   IN /\ IsFull(res.window)
                      /\ res.ret = TRUE
                      /\ res.rangesToAvoid
                            = rangesToAvoid \o
                              <<[interval |-> avoidInterval(point, radius, discOnLeft),
                                 onLeft |-> discOnLeft]>>]_vars

\* A second CanAvoidDisc has been deferred under the full window.
C13_Witness ==
    /\ op = "CanAvoidDisc"
    /\ ret = TRUE
    /\ IsFull(window)
    /\ Len(rangesToAvoid) >= 2

\* C14: CanExtend(dst) is true exactly when dst is at most 90 degrees from the
\* source, its bearing is in the window and its bearing is in none of the
\* deferred intervals; with no constraint in force, exactly when dst is at most
\* 90 degrees from the source.
C14_ExtendIffAllowed ==
    \A dst \in Destinations :
        LET near == ChordAngleBetweenPoints(dst) <= RightChordAngle
            bearing == Bearing(direction(dst))
        IN /\ CanExtend(Self, dst)
                <=> /\ near
                    /\ bearing \in BearingsIn(window)
                    /\ \A k \in 1..Len(rangesToAvoid) :
                          bearing \notin BearingsIn(rangesToAvoid[k].interval)
           /\ (IsFull(window) /\ rangesToAvoid = <<>>) => (CanExtend(Self, dst) <=> near)

\* CanExtend has refused a destination; of the destinations at 90 degrees whose
\* bearing is in the window, a deferred interval holds one and not another.
C14_Witness ==
    /\ op = "CanExtend"
    /\ ret = FALSE
    /\ rangesToAvoid # <<>>
    /\ \E dst, other \in Destinations :
          /\ ChordAngleBetweenPoints(dst) = RightChordAngle
          /\ ChordAngleBetweenPoints(other) = RightChordAngle
          /\ Contains(window, direction(dst))
          /\ Contains(window, direction(other))
          /\ ~CanExtend(Self, dst)
          /\ CanExtend(Self, other)

\* C15: CanExtend changes neither the window nor the deferred queue, whatever
\* the destination and whatever it returns: the simplifier it leaves is the
\* simplifier it was called on, which is all that later calls depend on.
C15_ExtendChangesNothing ==
    [][/\ op' = "CanExtend" => (window' = window /\ rangesToAvoid' = rangesToAvoid)
       /\ op' = "CanExtend" => \A dst \in Destinations : afterCanExtend(Self, dst) = Self]_vars

\* CanExtend has refused a destination while ranges are deferred, and accepts
\* another one.
C15_Witness ==
    /\ op = "CanExtend"
    /\ ret = FALSE
    /\ rangesToAvoid # <<>>
    /\ ~IsEmpty(window)
    /\ \E dst \in Destinations : CanExtend(Self, dst)

\* The simplifier a call leaves behind.
After(res) == [window |-> res.window, rangesToAvoid |-> res.rangesToAvoid]

C17_ForcedEmpty ==
    /\ \A pt \in DiscPoints, r \in Radii :
          semiwidth(pt, r, -1) < 0
             => LET res == TargetDisc(Self, pt, r)
                IN IsEmpty(res.window) /\ res.ret = FALSE
    /\ \A point \in DiscPoints, radius \in Radii, discOnLeft \in BOOLEAN :
          semiwidth(point, radius, 1) >= Pi
             => LET res == CanAvoidDisc(Self, point, radius, discOnLeft)
                IN IsEmpty(res.window) /\ res.ret = FALSE

\* TargetDisc has failed and left a queue of deferred ranges: its disc could
\* not be reached, and the bearings that were permitted are lost.
C17_Witness ==
    /\ op = "TargetDisc"
    /\ ret = FALSE
    /\ IsEmpty(window)
    /\ rangesToAvoid # <<>>
    /\ permitted = {}

\* C18: when the bearing of the centre of the disc handed to CanAvoidDisc
\* differs from the bearing of a destination by more than 90 degrees plus the
\* semiwidth of the disc, CanExtend answers for that destination after the
\* call with discOnLeft true as after the call with discOnLeft false.
C18_SideIrrelevantBehindSource ==
    \A point \in DiscPoints, radius \in Radii, dst \in Destinations :
        LET sw == semiwidth(point, radius, 1)
            apart == CircDist(Bearing(direction(dst)), Bearing(direction(point)))
        IN (sw < Pi /\ apart > QuarterTurn + sw)
              => CanExtend(After(CanAvoidDisc(Self, point, radius, TRUE)), dst)
                    = CanExtend(After(CanAvoidDisc(Self, point, radius, FALSE)), dst)

\* The bearings from bearing lo counterclockwise to bearing hi, both included.
Arc(lo, hi) == {b \in Bearings : (b - lo) % TwoPi <= (hi - lo) % TwoPi}

\* The bearings a forbidden interval leaves of a window: one side of the
\* interval when the window contains it, else what the window has in common
\* with the complement of the interval.
LeftBy(w, forbidden, discOnLeft) ==
    IF BearingsIn(forbidden) \subseteq BearingsIn(w)
    THEN IF discOnLeft
         THEN Arc(Bearing(w.Lo), Bearing(forbidden.Lo))
         ELSE Arc(Bearing(forbidden.Hi), Bearing(w.Hi))
    ELSE BearingsIn(w) \cap BearingsIn(Complement(forbidden))

\* C20: CanAvoidDisc on a window that is not full, with a disc that does not
\* contain the source: if the window contains the forbidden interval, the
\* window becomes [window.lo, forbidden.lo] when discOnLeft is true and
\* [forbidden.hi, window.hi] when it is false; otherwise the window becomes
\* what it has in common with the complement of the forbidden interval.
\* The same holds of a deferred range when TargetDisc applies it to the
\* window it has narrowed.
C20_AvoidRangePolicy ==
    /\ \A point \in DiscPoints, radius \in Radii, discOnLeft \in BOOLEAN :
          (~IsFull(window) /\ semiwidth(point, radius, 1) < Pi)
             => BearingsIn(CanAvoidDisc(Self, point, radius, discOnLeft).window)
                   = LeftBy(window, avoidInterval(point, radius, discOnLeft), discOnLeft)
    /\ \A pt \in DiscPoints, r \in Radii :
          (Narrows(pt, r) /\ Len(rangesToAvoid) = 1)
             => BearingsIn(TargetDisc(Self, pt, r).window)
                   = LeftBy(Intersection(window, TargetInterval(pt, r)),
                            rangesToAvoid[1].interval, rangesToAvoid[1].onLeft)

\* CanAvoidDisc has cut the window down to one side of a forbidden interval:
\* bearings that meet every constraint are no longer in the window.
C20_Witness ==
    /\ op = "CanAvoidDisc"
    /\ ret = TRUE
    /\ ~IsFull(window)
    /\ BearingsIn(window) \subseteq permitted
    /\ BearingsIn(window) # permitted

\* The bearings CanExtend accepts, over the destinations within 90 degrees.
Accepted ==
    {Bearing(direction(dst)) :
        dst \in {d \in Destinations : /\ ChordAngleBetweenPoints(d) = RightChordAngle
                                      /\ CanExtend(Self, d)}}

\* The bearings inside a deferred forbidden interval.
Forbidden == UNION {BearingsIn(rangesToAvoid[k].interval) : k \in 1..Len(rangesToAvoid)}

\* C22: for a disc that does not contain the source, the forbidden interval
\* CanAvoidDisc builds is [center - semiwidth, center + pi/2] when discOnLeft
\* is true and [center - pi/2, center + semiwidth] when it is false.  While
\* avoid discs only have been registered, each of them with such an interval,
\* the queue holds intervals of that form and the bearings CanExtend accepts
\* are the bearings outside all of them.
C22_ForbiddenInterval ==
    /\ \A point \in DiscPoints, radius \in Radii, discOnLeft \in BOOLEAN :
          LET sw == semiwidth(point, radius, 1)
              center == direction(point)
          IN sw < Pi =>
                BearingsIn(avoidInterval(point, radius, discOnLeft))
                   = IF discOnLeft
                     THEN Arc(center - sw, center + QuarterTurn)
                     ELSE Arc(center - QuarterTurn, center + sw)
    /\ IsFull(window) =>
          /\ Accepted = Bearings \ Forbidden
          /\ \A k \in 1..Len(rangesToAvoid) :
                \E point \in DiscPoints, radius \in Radii :
                   LET sw == semiwidth(point, radius, 1)
                       center == direction(point)
                   IN /\ sw < Pi
                      /\ BearingsIn(rangesToAvoid[k].interval)
                            = IF rangesToAvoid[k].onLeft
                              THEN Arc(center - sw, center + QuarterTurn)
                              ELSE Arc(center - QuarterTurn, center + sw)

\* CanExtend has returned true with two avoid discs registered and no target:
\* the bearings it accepts lie in two gaps, with refused bearings between
\* them on either way round the circle.
C22_Witness ==
    /\ op = "CanExtend"
    /\ ret = TRUE
    /\ IsFull(window)
    /\ Len(rangesToAvoid) = 2
    /\ \E a, b \in Accepted :
          /\ Arc(a, b) \ Accepted # {}
          /\ Arc(b, a) \ Accepted # {}

\* C25: in every state of the simplifier, if ranges are deferred the window is
\* the full circle or empty: a window that is neither has no deferred range.
C25_QueueOnlyBeforeNarrowing ==
    rangesToAvoid # <<>> => (IsFull(window) \/ IsEmpty(window))

\* CanAvoidDisc has emptied a full window, for a disc that contains the
\* source, while ranges were deferred: they stay in the queue.
C25_Witness ==
    /\ op = "CanAvoidDisc"
    /\ ret = FALSE
    /\ IsEmpty(window)
    /\ Len(rangesToAvoid) >= 2

\* C23: whichever axis has the component of smallest magnitude, yDir is the
\* cross product of the source with the unit vector of that axis and xDir is
\* the cross product of yDir with the source.
C23_FrameFromSmallestAxis ==
    /\ yDir = Cross(src, AxisVector(SmallestComponent(src)))
    /\ xDir = Cross(yDir, src)

\* C24: for every source other than the origin, points on a coordinate axis
\* included, xDir and yDir are not zero, each is orthogonal to the source and
\* to the other, and |xDir|^2 = |yDir|^2 * |src|^2.
C24_FrameWellFormed ==
    src # ZeroVector =>
       /\ yDir # ZeroVector
       /\ xDir # ZeroVector
       /\ Dot(yDir, src) = 0
       /\ Dot(xDir, src) = 0
       /\ Dot(xDir, yDir) = 0
       /\ Norm2(xDir) = Norm2(yDir) * Norm2(src)

---------------------------------------------------------------------------
(* Further claims about indexCellData *)

\* The ids of the shapes of the stored cell.
CellShapeIDs == {cell.shapes[n].shapeID : n \in 1..Len(cell.shapes)}

\* C21: once a cell is loaded, the shape regions hold exactly one entry for
\* each shape of the cell whose dimension is wanted and none for any other
\* shape; no edge of a shape of an unwanted dimension is in the edge buffer
\* and the region of an unwanted dimension has no edges, also for an unwanted
\* dimension 1 between wanted dimensions 0 and 2; when no dimension is wanted
\* the edge buffer and the shape regions are empty and the three dimension
\* regions are zero.
C21_OnlyWantedShapes ==
    index # 0 =>
       /\ \A id \in ShapeIDs :
             Cardinality({m \in 1..Len(shapeRegions) : shapeRegions[m].shapeID = id})
                = IF id \in CellShapeIDs /\ dimWanted[Dimension(index, id)] THEN 1 ELSE 0
       /\ \A n \in 1..Len(cell.shapes) :
             ~dimWanted[Dimension(index, cell.shapes[n].shapeID)]
                => \A k \in 1..Len(cell.shapes[n].edges) :
                      \A p \in 1..Len(edges) :
                         edges[p] # EdgeRecord(index, cell.shapes[n].shapeID,
                                               cell.shapes[n].edges[k])
       /\ \A d \in 0..2 : ~dimWanted[d] => dimRegions[d].size = 0
       /\ (\A d \in 0..2 : ~dimWanted[d])
             => /\ edges = <<>>
                /\ shapeRegions = <<>>
                /\ \A d \in 0..2 : dimRegions[d] = region(0, 0)

\* A decoder that wants dimensions 0 and 2 only has loaded a cell that holds
\* shapes of all three dimensions, the one of dimension 1 with edges.
C21_Witness ==
    /\ dop = "LoadCell"
    /\ dimWanted[0] /\ ~dimWanted[1] /\ dimWanted[2]
    /\ \A d \in 0..2 : \E id \in CellShapeIDs : Dimension(index, id) = d
    /\ \E n \in 1..Len(cell.shapes) :
          /\ Dimension(index, cell.shapes[n].shapeID) = 1
          /\ cell.shapes[n].edges # <<>>
    /\ dimRegions[0].size > 0
    /\ dimRegions[2].size > 0
    /\ Len(shapeRegions) = 2

\* C26: after every LoadCell call the stored cell is the cell handed to that
\* call and the edge buffer is the decoding of that cell: no data decoded
\* from the cell of an earlier call is left.
C26_StoredCellIsArgument ==
    dop = "LoadCell" =>
       /\ cell = loadArg.cell
       /\ edges = decodeCell(resetCell(Data, loadArg.index, loadArg.id, loadArg.cell)).edges

=============================================================================
